---- MODULE Spec2Model ----
(***************************************************************************)
(* Model of btgym/research/model_based/datafeed/bivariate.py:              *)
(*   - SimpleBivariateGenerator: generate_data() and sample()              *)
(*   - BivariateDataSet.__init__                                           *)
(*                                                                         *)
(* Python values are encoded as follows:                                   *)
(*   - None, where an object is expected, is the empty function <<>>;      *)
(*     None in metadata['type'] (an int elsewhere) is TypeNone;            *)
(*   - a dict is the sequence of its <<key, value>> items in insertion     *)
(*     order (keys distinct), except for dicts with fixed string keys,     *)
(*     which are records;                                                  *)
(*   - a numpy array shaped [1, 2, n] is a function data[0][c], c in       *)
(*     {0, 1}, whose values are sequences of length n;                     *)
(*   - a pandas DataFrame is a record of its column names, its column      *)
(*     data and its index.                                                 *)
(***************************************************************************)
EXTENDS Integers, Sequences, FiniteSets

VARIABLES
    gen,        \* the SimpleBivariateGenerator instance sample() is called on
    sample,     \* the object returned by the last sample() call, None before
    calls,      \* trace of the last sample() call: the calls it made, in order
    issued,     \* metadata['sample_num'] of every sample returned so far
    ds,         \* outcome of BivariateDataSet.__init__, None before the call
    ctor_args   \* the arguments BivariateDataSet.__init__ was called with

vars == <<gen, sample, calls, issued, ds, ctor_args>>

-----------------------------------------------------------------------------
(* Bounds of the model *)

MaxNames == 2       \* self.names holds 1..MaxNames column names
MaxSamples == 2     \* sample() is called at most MaxSamples times
MaxKeys == 3        \* assets_filenames holds 0..MaxKeys items

NumPoints == {1, 2}                     \* values of episode_num_records
Vals == {0, 1}                          \* values of a generated data point
Configs == {"config_A", "config_B"}     \* generator_parameters_config values
Draws == {"state_1", "state_2"}         \* outcomes of the random state draw
AssetNames == {"EUR", "GBP", "CHF", "JPY"}
FileNames == {"f1.csv", "f2.csv"}
ModelParams == {"params_A", "params_B"}
Durations == {<<>>, [days |-> 0, hours |-> 23, minutes |-> 55]}

None == <<>>
TypeNone == -1

-----------------------------------------------------------------------------
(* SimpleBivariateGenerator *)

\* self.columns_map; ColumnKeys are its keys in definition order.
ColumnKeys == <<"open", "high", "low", "close", "bid", "ask", "mid">>

columns_map ==
    [name \in {ColumnKeys[i] : i \in DOMAIN ColumnKeys} |->
        CASE name = "open"  -> "mean"
          [] name = "high"  -> "maximum"
          [] name = "low"   -> "minimum"
          [] name = "close" -> "last"
          [] name = "bid"   -> "minimum"
          [] name = "ask"   -> "maximum"
          [] name = "mid"   -> "mean"]

\* Keys of a dict built by inserting the given keys in order.
RECURSIVE dict_keys(_)
dict_keys(s) ==
    IF s = <<>> THEN <<>>
    ELSE LET r == dict_keys(SubSeq(s, 1, Len(s) - 1))
             k == s[Len(s)]
         IN  IF \E i \in DOMAIN r : r[i] = k THEN r ELSE Append(r, k)

\* pd.DataFrame(data={name: p_dict[columns_map[name]] for name in names}, index=index)
DataFrame(p_dict, names, index) ==
    [columns |-> dict_keys(names),
     data    |-> [name \in {names[i] : i \in DOMAIN names} |-> p_dict[columns_map[name]]],
     index   |-> index]

\* The lists of column names self.names may hold: 1..MaxNames distinct keys of
\* columns_map, here runs of consecutive keys.
NameLists ==
    UNION {{SubSeq(ColumnKeys, i, i + n - 1) : i \in 1..(Len(ColumnKeys) - n + 1)} :
           n \in 1..MaxNames}

\* Outcomes of self.generator_parameters_fn(**config): a randomly drawn model
\* state for the given configuration.
generator_parameters_fn(config) ==
    {[state |-> <<config, d>>] : d \in Draws}

\* Outcomes of self.generator_fn(num_points=..., **params): an array shaped
\* [1, 2, num_points].
generator_fn(num_points, params) ==
    [{0} -> [{0, 1} -> [1..num_points -> Vals]]]

\* The generator_fn call generate_data() makes.
generator_fn_call(self, generator_params) ==
    [fn         |-> "generator_fn",
     num_points |-> self.data[self.a1_name].episode_num_records,
     kwargs     |-> generator_params]

\* generate_data() with the second asset's 'last' series taken from component 0.
generate_data_last_from_first(self, data, sample_type) ==
    LET p1_dict == [k \in {"mean", "maximum", "minimum", "last"} |-> data[0][0]]
        p2_dict == [k \in {"mean", "maximum", "minimum", "last"} |->
                        IF k = "last" THEN data[0][0] ELSE data[0][1]]
        index   == IF sample_type # 0 THEN "test_index" ELSE "train_index"
        df1     == DataFrame(p1_dict, self.names, index)
        df2     == DataFrame(p2_dict, self.names, index)
    IN  <<df1, df2>>

\* generate_data(), given the array `data` its generator_fn call returned.
generate_data(self, data, sample_type) ==
    LET p1_dict == [k \in {"mean", "maximum", "minimum", "last"} |-> data[0][0]]
        p2_dict == [k \in {"mean", "maximum", "minimum", "last"} |-> data[0][1]]
        index   == IF sample_type # 0 THEN "test_index" ELSE "train_index"
        df1     == DataFrame(p1_dict, self.names, index)
        df2     == DataFrame(p2_dict, self.names, index)
    IN  <<df1, df2>>

\* sample(): whether the requested sample_type gets overridden.
type_overridden(self, sample_type) ==
    /\ self.metadata.type # TypeNone
    /\ self.metadata.type # sample_type

\* The override check leaving the requested type in effect.
effective_type_as_requested(self, sample_type) == sample_type

\* sample(): the sample type in effect after the override check.
effective_type(self, sample_type) ==
    IF type_overridden(self, sample_type) THEN self.metadata.type ELSE sample_type

\* sample(): the empty SimpleBivariateGenerator instance that gets populated.
new_instance(self) ==
    [names |-> self.names,
     data_names |-> self.data_names,
     generator_parameters_config |-> self.generator_parameters_config,
     name |-> <<"sub_", self.name>>]

\* sample(): the metadata.update() argument.
metadata_update(self, sample_type) ==
    [type               |-> sample_type,
     sample_num         |-> self.sample_num,
     parent_sample_type |-> self.metadata.type,
     parent_sample_num  |-> self.sample_num,
     first_row          |-> 0,
     last_row           |-> self.data[self.a1_name].episode_num_records]

\* dict.update() on records: keys of `upd` override those of `d`.
update(d, upd) ==
    [k \in DOMAIN d \cup DOMAIN upd |-> IF k \in DOMAIN upd THEN upd[k] ELSE d[k]]

\* The streams populated with the two dataframes swapped.
populate_swapped(self, data1, data2) ==
    [k \in {self.a1_name, self.a2_name} |->
        [data |-> IF k = self.a1_name THEN data2 ELSE data1]]

\* sample(): the streams of the returned sample after being populated.
populate(self, data1, data2) ==
    [k \in {self.a1_name, self.a2_name} |->
        [data |-> IF k = self.a1_name THEN data1 ELSE data2]]

\* The counter incremented only when new data got generated.
next_sample_num_if_generated(self) ==
    IF self.get_new_sample THEN self.sample_num + 1 ELSE self.sample_num

\* sample(): self.sample_num += 1
next_sample_num(self) == self.sample_num + 1

\* sample(): the returned object, given metadata and data.
returned_sample(self, metadata, sample_type, data1, data2) ==
    update(new_instance(self),
           [metadata |-> update(metadata, metadata_update(self, sample_type)),
            data     |-> populate(self, data1, data2),
            filename |-> [k \in DOMAIN self.data |-> self.data[k].filename]])

\* One call of gen.sample(sample_type).
Sample(sample_type) ==
    /\ Len(issued) < MaxSamples
    /\ LET warn == IF type_overridden(gen, sample_type)
                   THEN <<[fn |-> "log.warning",
                           args |-> <<sample_type, gen.metadata.type>>]>>
                   ELSE <<>>
           st   == effective_type(gen, sample_type)
           head == <<[fn |-> "sample", sample_type |-> sample_type]>> \o warn
       IN  /\ IF gen.get_new_sample
              THEN \E params \in generator_parameters_fn(gen.generator_parameters_config) :
                   LET gcall == generator_fn_call(gen, params)
                   IN  \E data \in generator_fn(gcall.num_points, gcall.kwargs) :
                       LET dfs == generate_data(gen, data, st)
                       IN  /\ sample' = returned_sample(gen, [generator |-> params], st,
                                                        dfs[1], dfs[2])
                           /\ calls' = head \o
                                <<[fn     |-> "generator_parameters_fn",
                                   kwargs |-> gen.generator_parameters_config,
                                   ret    |-> params],
                                  update(gcall, [ret |-> data])>>
              ELSE /\ sample' = returned_sample(gen, <<>>, st, None, None)
                   /\ calls' = head
           /\ issued' = Append(issued, sample'.metadata.sample_num)
    /\ gen' = [gen EXCEPT !.sample_num = next_sample_num(gen)]
    /\ UNCHANGED <<ds, ctor_args>>

\* The generator after construction: either a top-level one or a sample of
\* another generator; streams named after data_names, sample counter at zero.
InitGenerator ==
    \E names \in NameLists, type \in {TypeNone, 0, 1}, gns \in BOOLEAN,
       config \in Configs, n \in NumPoints :
        gen = [names |-> names,
               metadata |-> [type |-> type],
               get_new_sample |-> gns,
               generator_parameters_config |-> config,
               data_names |-> <<"EUR", "GBP">>,
               a1_name |-> "EUR",
               a2_name |-> "GBP",
               name |-> "BivariateGenerator",
               sample_num |-> 0,
               data |-> [k \in {"EUR", "GBP"} |->
                           [episode_num_records |-> n, filename |-> None]]]

-----------------------------------------------------------------------------
(* BivariateDataSet *)

\* The values assets_filenames is drawn from: dicts (and instances of a dict
\* subclass) of 0..MaxKeys items, lists of as many pairs, and None.
ItemLists ==
    UNION {{s \in [1..n -> AssetNames \X FileNames] :
                \A i, j \in 1..n : i # j => s[i][1] # s[j][1]} : n \in 0..MaxKeys}

AssetsFilenames ==
    {[kind |-> k, items |-> s] : k \in {"dict", "OrderedDict", "list"}, s \in ItemLists}
        \cup {[kind |-> "NoneType", items |-> <<>>]}

\* isinstance(obj, dict)
isinstance_dict(obj) == obj.kind \in {"dict", "OrderedDict"}

\* [name for name in assets_filenames.keys()]
keys(d) == [i \in DOMAIN d.items |-> d.items[i][1]]

\* The assertion accepting more than two assets.
two_assets_or_more(data_names) == Len(data_names) >= 2

\* The condition of the assertion on data_names.
two_assets(data_names) == Len(data_names) = 2

\* BivariateDataSet.__init__: train_data_config
train_data_config(data_names, model_params, train_episode_duration) ==
    [data_names                  |-> data_names,
     generator_parameters_config |-> model_params,
     episode_duration            |-> train_episode_duration]

\* BivariateDataSet.__init__: test_data_config
test_data_config(assets_filenames, test_episode_duration) ==
    [data_class_ref   |-> "BTgymDataset2",
     data_config      |-> [i \in DOMAIN assets_filenames.items |->
                              <<assets_filenames.items[i][1],
                                [filename |-> assets_filenames.items[i][2]]>>],
     episode_duration |-> test_episode_duration]

\* BivariateDataSet.__init__: the exception raised, or the keyword arguments
\* the base class constructor gets called with.
BivariateDataSet_init(assets_filenames, model_params, train_duration, test_duration) ==
    IF ~isinstance_dict(assets_filenames)
    THEN [raised  |-> "AssertionError",
          message |-> <<"Expected assets_filenames type dict, got ",
                        assets_filenames.kind>>]
    ELSE LET data_names == keys(assets_filenames)
         IN  IF ~two_assets(data_names)
             THEN [raised  |-> "AssertionError",
                   message |-> <<"Expected exactly two assets, got: ", data_names>>]
             ELSE [train_data_config |-> train_data_config(data_names, model_params,
                                                           train_duration),
                   test_data_config  |-> test_data_config(assets_filenames,
                                                          test_duration),
                   train_class_ref   |-> "SimpleBivariateGenerator",
                   test_class_ref    |-> "BTgymMultiData",
                   name              |-> "BivariateDataSet"]

\* One call of BivariateDataSet(assets_filenames, model_params, ...).
Construct(assets_filenames, model_params, train_episode_duration, test_episode_duration) ==
    /\ ds = None
    /\ ctor_args' = [assets_filenames       |-> assets_filenames,
                     model_params           |-> model_params,
                     train_episode_duration |-> train_episode_duration,
                     test_episode_duration  |-> test_episode_duration]
    /\ ds' = BivariateDataSet_init(assets_filenames, model_params,
                                   train_episode_duration, test_episode_duration)
    /\ UNCHANGED <<gen, sample, calls, issued>>

-----------------------------------------------------------------------------
(* Specifications *)

Init ==
    /\ InitGenerator
    /\ sample = None
    /\ calls = <<>>
    /\ issued = <<>>
    /\ ds = None
    /\ ctor_args = None

Next == \E sample_type \in {0, 1} : Sample(sample_type)

Spec == Init /\ [][Next]_vars

\* No generator exists yet; a BivariateDataSet gets constructed.
InitDataSet ==
    /\ gen = None
    /\ sample = None
    /\ calls = <<>>
    /\ issued = <<>>
    /\ ds = None
    /\ ctor_args = None

NextDataSet ==
    \E a \in AssetsFilenames, m \in ModelParams, d1 \in Durations, d2 \in Durations :
        Construct(a, m, d1, d2)

SpecDataSet == InitDataSet /\ [][NextDataSet]_vars

-----------------------------------------------------------------------------
(* Properties *)

\* The calls of the generator functions made by the last sample() call.
IsGeneratorCall(c) == c.fn \in {"generator_parameters_fn", "generator_fn"}
GeneratorCalls == SelectSeq(calls, IsGeneratorCall)

\* A sample() call returned and it generated new data.
Generated == sample # None /\ gen.get_new_sample

\* C1: when get_new_sample is true, sample() calls generator_parameters_fn
\* exactly once with generator_parameters_config, then generator_fn exactly
\* once with the parameters just drawn and num_points equal to the first
\* asset's episode_num_records; the first-asset stream of the returned sample
\* holds the dataframe of component 0 of the generated array, the second-asset
\* stream that of component 1, and metadata['generator'] is the drawn parameters.
C1_SampleSteps ==
    Generated =>
        LET made == GeneratorCalls
        IN  /\ Len(made) = 2
            /\ made[1].fn = "generator_parameters_fn"
            /\ made[1].kwargs = gen.generator_parameters_config
            /\ made[2].fn = "generator_fn"
            /\ made[2].kwargs = made[1].ret
            /\ made[2].num_points = gen.data[gen.data_names[1]].episode_num_records
            /\ \A c \in {0, 1} :
                LET df == sample.data[gen.data_names[c + 1]].data
                IN  /\ df # None
                    /\ df.columns = gen.names
                    /\ \A name \in DOMAIN df.data : df.data[name] = made[2].ret[0][c]
            /\ sample.metadata.generator = made[1].ret

C1_Witness ==
    /\ Generated
    /\ Len(GeneratorCalls) = 2
    /\ GeneratorCalls[2].ret[0][0] # GeneratorCalls[2].ret[0][1]
    /\ sample.data[gen.data_names[1]].data # sample.data[gen.data_names[2]].data

\* C2: generate_data produces O=H=L=C data: all columns of the first returned
\* dataframe are equal to each other and to data[0,0,:], all columns of the
\* second are equal to each other and to data[0,1,:], and each dataframe has
\* exactly one column per entry of self.names.
C2_AllColumnsEqual ==
    Generated =>
        LET data == calls[Len(calls)].ret
            dfs  == <<sample.data[gen.a1_name].data, sample.data[gen.a2_name].data>>
        IN  \A k \in {1, 2} :
                /\ Len(dfs[k].columns) = Len(gen.names)
                /\ \A i \in DOMAIN gen.names : dfs[k].columns[i] = gen.names[i]
                /\ DOMAIN dfs[k].data = {gen.names[i] : i \in DOMAIN gen.names}
                /\ \A n1, n2 \in DOMAIN dfs[k].data : dfs[k].data[n1] = dfs[k].data[n2]
                /\ \A n \in DOMAIN dfs[k].data : dfs[k].data[n] = data[0][k - 1]

C2_Witness ==
    /\ Generated
    /\ Len(gen.names) >= 2
    /\ \E i, j \in DOMAIN gen.names : columns_map[gen.names[i]] # columns_map[gen.names[j]]
    /\ LET data == calls[Len(calls)].ret
       IN  /\ data[0][0] # data[0][1]
           /\ Len(data[0][0]) >= 2
           /\ sample.data[gen.a2_name].data.data[gen.names[1]] = data[0][1]

\* C3: when the generator's metadata['type'] is not None and differs from the
\* requested sample_type, the returned sample's metadata['type'] equals the
\* generator's and the data is generated for that type; when the generator's
\* metadata['type'] is None, the returned sample's metadata['type'] equals the
\* requested sample_type.
C3_TypeOverride ==
    sample # None =>
        LET requested == calls[1].sample_type
            own       == gen.metadata.type
        IN  /\ (own # TypeNone /\ own # requested) =>
                  /\ sample.metadata.type = own
                  /\ gen.get_new_sample =>
                        \A k \in DOMAIN sample.data :
                            sample.data[k].data.index =
                                (IF own = 1 THEN "test_index" ELSE "train_index")
            /\ own = TypeNone => sample.metadata.type = requested

C3_Witness ==
    /\ Generated
    /\ gen.metadata.type = 1
    /\ calls[1].sample_type = 0
    /\ calls[2].fn = "log.warning"
    /\ sample.metadata.type = 1
    /\ sample.data[gen.a1_name].data.index = "test_index"

\* C4: constructing a BivariateDataSet fails with an assertion error, before
\* any train or test configuration is built, unless assets_filenames is a dict
\* with exactly two keys; when construction succeeds, the train configuration's
\* data_names are exactly those two keys with generator_parameters_config equal
\* to model_params and SimpleBivariateGenerator as the train class, and the
\* test configuration holds one {'filename': file_name} entry per asset with
\* BTgymMultiData as the test class.
C4_TwoAssetsOrAssertion ==
    ds # None =>
        LET a   == ctor_args.assets_filenames
            two == a.kind \in {"dict", "OrderedDict"} /\ Len(a.items) = 2
        IN  IF ~two
            THEN /\ DOMAIN ds = {"raised", "message"}
                 /\ ds.raised = "AssertionError"
            ELSE /\ "raised" \notin DOMAIN ds
                 /\ ds.train_data_config.data_names = <<a.items[1][1], a.items[2][1]>>
                 /\ ds.train_data_config.generator_parameters_config = ctor_args.model_params
                 /\ ds.train_class_ref = "SimpleBivariateGenerator"
                 /\ Len(ds.test_data_config.data_config) = 2
                 /\ \A i \in {1, 2} :
                        ds.test_data_config.data_config[i] =
                            <<a.items[i][1], [filename |-> a.items[i][2]]>>
                 /\ ds.test_class_ref = "BTgymMultiData"

C4_Witness ==
    /\ ds # None
    /\ ctor_args.assets_filenames.kind = "dict"
    /\ Len(ctor_args.assets_filenames.items) = 3
    /\ ds.raised = "AssertionError"

\* C5: every call of sample() increases the generator's sample_num by exactly
\* one and the returned sample's metadata['sample_num'] is the value of
\* sample_num before the call; so the samples returned by one generator carry
\* strictly increasing, consecutive sample numbers and no two share a number.
C5_SampleNumbers ==
    /\ [][/\ gen'.sample_num = gen.sample_num + 1
          /\ sample'.metadata.sample_num = gen.sample_num]_vars
    /\ [](\A i, j \in DOMAIN issued : i < j => issued[j] = issued[i] + (j - i))

C5_Witness ==
    /\ Len(issued) >= 2
    /\ issued[2] = issued[1] + 1
    /\ sample.metadata.sample_num = issued[Len(issued)]
    /\ gen.sample_num = sample.metadata.sample_num + 1

====
